---- MODULE Spec2Model ----
(***************************************************************************)
(* Model of jina/peapods/peas/__init__.py: the worker entry point run(),   *)
(* the supervisor BasePea (start, wait_start_success, close, terminate,    *)
(* join, the retrying control-channel client) and the runtime selection    *)
(* policy _get_runtime_cls.                                                *)
(***************************************************************************)
EXTENDS Integers, Sequences, FiniteSets

\* ------------------------------------------------------------------ bounds

\* how many close() calls the supervisor's caller makes at most
MaxClose == 2
\* largest num_retry drawn for _retry_control_message in SpecRetry
MaxNumRetry == 5

\* ------------------------------------------------------- program constants

\* default of num_retry in _retry_control_message
NumRetryDefault == 3
\* the value _get_runtime_cls forces on args.timeout_ready for a remote Pea
TimeoutReadyDisabled == -1
\* a positive --timeout-ready, in milliseconds
TimeoutReadyMs == 50

DefaultHost == "0.0.0.0"
RemoteHost == "1.2.3.4"

\* gateway_runtime_dict; the protocol "NONE" stands for args without the
\* attribute `protocol` (hasattr(self.args, 'protocol') is False)
GatewayProtocols == {"GRPC", "WEBSOCKET", "HTTP"}

gateway_runtime_dict ==
    [GRPC |-> "GRPCRuntime", WEBSOCKET |-> "WebSocketRuntime", HTTP |-> "HTTPRuntime"]

GatewayRuntimeValues == {gateway_runtime_dict[p] : p \in GatewayProtocols}

RuntimeClsNames ==
    {"ZEDRuntime", "ContainerRuntime", "JinadRuntime"} \cup GatewayRuntimeValues

\* executor references (args.uses): a plain YAML, a container image, and the
\* two kinds of hub reference; the last two are what HubIO.pull() returns
UsesGiven ==
    {"executor.yml", "docker://img", "jinahub://Exec", "jinahub+docker://Exec"}

\* str.startswith('docker://')
StartsWithDocker(uses) == uses \in {"docker://img", "docker://hub/Exec"}

\* hubble.helper.is_valid_huburi: the scheme is jinahub or jinahub+docker
is_valid_huburi(uses) == uses \in {"jinahub://Exec", "jinahub+docker://Exec"}

\* HubIO(...).pull(): a jinahub+docker reference resolves to a container
\* image, a jinahub reference to the path of the pulled package's YAML
HubPull(uses) ==
    IF uses = "jinahub+docker://Exec" THEN "docker://hub/Exec"
    ELSE "/hub/Exec/config.yml"

\* ------------------------------------------------ runtime selection policy

\* lines 375-383: a remote host with remote execution enabled
SelectRemote(a) ==
    IF /\ a.runtime_cls \notin GatewayRuntimeValues
       /\ a.host # DefaultHost
       /\ ~a.disable_remote
    THEN [a EXCEPT !.runtime_cls = "JinadRuntime",
                   !.timeout_ready = TimeoutReadyDisabled]
    ELSE a

\* SelectContainer without the test for the default class
SelectContainerAnyClass(a) ==
    IF StartsWithDocker(a.uses)
    THEN [a EXCEPT !.runtime_cls = "ContainerRuntime"]
    ELSE a

\* lines 384-387: a container image reference
SelectContainer(a) ==
    IF a.runtime_cls = "ZEDRuntime" /\ StartsWithDocker(a.uses)
    THEN [a EXCEPT !.runtime_cls = "ContainerRuntime"]
    ELSE a

\* lines 388-393: a hub reference is pulled, and inspected again
SelectHub(a) ==
    IF a.runtime_cls = "ZEDRuntime" /\ is_valid_huburi(a.uses)
    THEN LET b == [a EXCEPT !.uses = HubPull(a.uses), !.hub_pulls = a.hub_pulls + 1]
         IN  IF StartsWithDocker(b.uses)
             THEN [b EXCEPT !.runtime_cls = "ContainerRuntime"]
             ELSE b
    ELSE a

\* SelectGateway as one more rule for the default class only
SelectGatewayIfDefault(a) ==
    IF a.protocol # "NONE" /\ a.runtime_cls = "ZEDRuntime"
    THEN [a EXCEPT !.runtime_cls = gateway_runtime_dict[a.protocol]]
    ELSE a

\* lines 394-395: a configured gateway protocol
SelectGateway(a) ==
    IF a.protocol # "NONE"
    THEN [a EXCEPT !.runtime_cls = gateway_runtime_dict[a.protocol]]
    ELSE a

\* _get_runtime_cls: the four statements in the order of the source; the
\* result is self.args as the method leaves it (get_runtime maps the name
\* args.runtime_cls to the class of that name)
_get_runtime_cls(a) == SelectGateway(SelectHub(SelectContainer(SelectRemote(a))))

\* --------------------------------------------- retrying control channel

\* The loop of _retry_control_message from attempt `retry` on. chan[i] tells
\* whether the i-th send_ctrl_message succeeds. The result is the number of
\* sends made and whether the last failure was raised.
RECURSIVE RetryLoop(_, _, _, _)
RetryLoop(chan, num_retry, retry, sends) ==
    IF retry > num_retry
    THEN [sends |-> sends, raised |-> FALSE]
    ELSE IF chan[retry]
         THEN [sends |-> sends + 1, raised |-> FALSE]
         ELSE IF retry = num_retry
              THEN [sends |-> sends + 1, raised |-> TRUE]
              ELSE RetryLoop(chan, num_retry, retry + 1, sends + 1)

\* _retry_control_message looping over range(1, num_retry)
RetryOneAttemptShort(chan, num_retry) == RetryLoop(chan, num_retry - 1, 1, 0)

_retry_control_message(chan, num_retry) == RetryLoop(chan, num_retry, 1, 0)

\* --------------------------------------------------- environment overlay

\* a mapping without keys: args.env when no override was given (None or {})
EmptyMap == <<>>

\* dict.update, lines 128 and 74
Update(d, other) ==
    [k \in DOMAIN d \cup DOMAIN other |->
        IF k \in DOMAIN other THEN other[k] ELSE d[k]]

\* os.unsetenv(k) for every k of keys, lines 64-65
Unsetenv(env, keys) == [k \in DOMAIN env \ keys |-> env[k]]

\* self._envs, lines 124-128: the worker's name and log id, the quiet flag,
\* then the user's overrides
_envs(a) ==
    LET named == [JINA_POD_NAME |-> a.name, JINA_LOG_ID |-> a.identity]
        quieted == IF a.quiet THEN Update(named, [JINA_LOG_CONFIG |-> "QUIET"])
                   ELSE named
    IN  IF a.env # EmptyMap THEN Update(quieted, a.env) ELSE quieted

\* _set_envs, lines 67-74, on the environment env: nothing without user
\* overrides; with them a warning on the thread backend, the whole overlay
\* otherwise
_set_envs(a, env) ==
    IF a.env # EmptyMap
    THEN IF a.runtime_backend = "THREAD" THEN env ELSE Update(env, _envs(a))
    ELSE env

\* _unset_envs, lines 62-65
_unset_envs(a, env) ==
    IF _envs(a) # EmptyMap /\ a.runtime_backend # "THREAD"
    THEN Unsetenv(env, DOMAIN _envs(a))
    ELSE env

\* the environment the execution unit starts with: none of the overlay's
\* variables
InheritedEnviron == [PATH |-> "/usr/bin"]

\* the overrides a user gives with --env: none, or a variable of their own
\* together with a log id of their own
UserEnvs == {EmptyMap, [MY_VAR |-> "1", JINA_LOG_ID |-> "user-log"]}

\* ------------------------------------------------------------------ state

VARIABLES
    args_given,     \* the argparse.Namespace handed to BasePea.__init__
    args,           \* self.args (mutated by _get_runtime_cls)
    runtime_cls,    \* self.runtime_cls, "unset" before __init__ has run
    is_started,     \* the four events of __init__, lines 140-143
    is_ready,
    is_shutdown,
    cancel_event,
    ros_event,      \* self.ready_or_shutdown.event
    pc_w,           \* where the worker (the target run) stands
    worker_exc,     \* what raised inside run: "none", "ctor" or "run"
    environ,        \* the environment variables of the worker's execution unit
    pc_s,           \* where the supervisor's calling thread stands
    wss_woke,       \* how the wait of wait_start_success ended
    wss_result,     \* how wait_start_success ended
    close_no,       \* close() calls begun so far
    close_from,     \* who made the latest close() call
    close_entry,    \* the events as the latest close() call found them
    close_log,      \* what the latest close() call did, in order
    close_results,  \* how each completed close() call ended
    logger_closed,  \* self.logger.close() has run
    retry_in,       \* the inputs of one _retry_control_message call
    retry_out       \* and its outcome

vars ==
    <<args_given, args, runtime_cls, is_started, is_ready, is_shutdown,
      cancel_event, ros_event, pc_w, worker_exc, environ, pc_s, wss_woke,
      wss_result, close_no, close_from, close_entry, close_log,
      close_results, logger_closed,
      retry_in, retry_out>>

eventVars == <<is_started, is_ready, is_shutdown, cancel_event, ros_event>>
workerVars == <<pc_w, worker_exc, environ>>
configVars == <<args_given, args, runtime_cls>>
retryVars == <<retry_in, retry_out>>
closeVars ==
    <<close_no, close_from, close_entry, close_log, close_results, logger_closed>>
wssVars == <<wss_woke, wss_result>>

NoRetry == [cmd |-> "NONE", num_retry |-> 0, chan |-> <<>>]
NoOutcome == [sends |-> 0, raised |-> FALSE, done |-> FALSE]

\* the worker has left run(), or was killed
WorkerFinished == {"done", "raised", "killed"}

\* every way a send sequence of num_retry attempts can go
Channels(num_retry) == [1..num_retry -> BOOLEAN]

\* the Namespaces of the lifecycle specification: the parser defaults of a Pea
\* (ZEDRuntime, no protocol), a Pea of a container image, and the parser
\* defaults of a gateway (GRPCRuntime, protocol GRPC), on the local or on a
\* remote host, without --quiet and --env
LifecycleArgs ==
    { [runtime_backend |-> b, timeout_ready |-> t, daemon |-> d, socket_in |-> s,
       noblock_on_start |-> n, host |-> h, disable_remote |-> FALSE,
       uses |-> r[3], runtime_cls |-> r[1], protocol |-> r[2],
       hub_pulls |-> 0, name |-> "pea", identity |-> "pea-id", quiet |-> FALSE,
       env |-> EmptyMap] :
        b \in {"THREAD", "PROCESS"}, t \in {TimeoutReadyDisabled, TimeoutReadyMs},
        d \in BOOLEAN, s \in {"DEALER_CONNECT", "PULL_BIND"}, n \in BOOLEAN,
        h \in {DefaultHost, RemoteHost},
        r \in {<<"ZEDRuntime", "NONE", "executor.yml">>,
               <<"ZEDRuntime", "NONE", "docker://img">>,
               <<"GRPCRuntime", "GRPC", "executor.yml">>} }

\* the Namespaces of the selection specification: every combination of the
\* fields _get_runtime_cls reads
SelectionArgs ==
    { [runtime_backend |-> "PROCESS", timeout_ready |-> t, daemon |-> FALSE,
       socket_in |-> "PULL_BIND", noblock_on_start |-> FALSE, host |-> h,
       disable_remote |-> dr, uses |-> u, runtime_cls |-> r, protocol |-> p,
       hub_pulls |-> 0, name |-> "pea", identity |-> "pea-id", quiet |-> FALSE,
       env |-> EmptyMap] :
        t \in {TimeoutReadyDisabled, TimeoutReadyMs},
        h \in {DefaultHost, RemoteHost}, dr \in BOOLEAN, u \in UsesGiven,
        r \in RuntimeClsNames, p \in GatewayProtocols \cup {"NONE"} }

\* the Namespaces of the entry-point specification: both backends, with and
\* without --quiet, with and without --env
RunArgs ==
    { [runtime_backend |-> b, timeout_ready |-> TimeoutReadyMs, daemon |-> FALSE,
       socket_in |-> "PULL_BIND", noblock_on_start |-> TRUE, host |-> DefaultHost,
       disable_remote |-> FALSE, uses |-> "executor.yml",
       runtime_cls |-> "ZEDRuntime", protocol |-> "NONE", hub_pulls |-> 0,
       name |-> "pea", identity |-> "pea-id", quiet |-> q, env |-> e] :
        b \in {"THREAD", "PROCESS"}, q \in BOOLEAN, e \in UserEnvs }

\* close() was not called yet
NoEntry == [ready |-> FALSE, shutdown |-> FALSE, cancel |-> FALSE]

\* everything but the configuration, as __init__ leaves it
InitRest ==
    /\ is_started = FALSE
    /\ is_ready = FALSE
    /\ is_shutdown = FALSE
    /\ cancel_event = FALSE
    /\ ros_event = FALSE
    /\ pc_w = "unstarted"
    /\ worker_exc = "none"
    /\ environ = InheritedEnviron
    /\ pc_s = "idle"
    /\ wss_woke = "none"
    /\ wss_result = "none"
    /\ close_no = 0
    /\ close_from = "none"
    /\ close_entry = NoEntry
    /\ close_log = <<>>
    /\ close_results = <<>>
    /\ logger_closed = FALSE
    /\ retry_in = NoRetry
    /\ retry_out = NoOutcome

\* BasePea.__init__ has run: the runtime class is selected, the events are
\* clear, the worker is created and not started
Init ==
    /\ args_given \in LifecycleArgs
    /\ args = _get_runtime_cls(args_given)
    /\ runtime_cls = args.runtime_cls
    /\ InitRest

\* ----------------------------------------------------- the worker: run()

\* line 77: the first statement of the try block
WorkerSetEnvs ==
    /\ pc_w = "set_envs"
    /\ environ' = _set_envs(args, environ)
    /\ pc_w' = "construct"
    /\ UNCHANGED <<configVars, eventVars, worker_exc, pc_s, wssVars, closeVars,
                   retryVars>>

\* lines 78-92: the Runtime is constructed, or its constructor raises and the
\* error is logged
WorkerConstruct ==
    /\ pc_w = "construct"
    /\ \E ok \in BOOLEAN :
        IF ok THEN /\ pc_w' = "set_started"
                   /\ UNCHANGED worker_exc
              ELSE /\ pc_w' = "finally"
                   /\ worker_exc' = "ctor"
    /\ UNCHANGED <<configVars, eventVars, environ, pc_s, wssVars, closeVars,
                   retryVars>>

\* WorkerSetStarted without is_started.set()
WorkerSetStartedSkipped ==
    /\ pc_w = "set_started"
    /\ pc_w' = "running"
    /\ UNCHANGED <<configVars, eventVars, worker_exc, environ, pc_s, wssVars, closeVars,
                   retryVars>>

\* line 94
WorkerSetStarted ==
    /\ pc_w = "set_started"
    /\ is_started' = TRUE
    /\ pc_w' = "running"
    /\ UNCHANGED <<configVars, is_ready, is_shutdown, cancel_event, ros_event,
                   worker_exc, environ, pc_s, wssVars, closeVars, retryVars>>

\* RuntimeSetReady by a Runtime that sets the Ready event it is handed as
\* soon as its constructor runs
RuntimeSetReadyInConstructor ==
    /\ pc_w \in {"construct", "set_started", "running"}
    /\ ~is_ready
    /\ is_ready' = TRUE
    /\ UNCHANGED <<configVars, is_started, is_shutdown, cancel_event, ros_event,
                   workerVars, pc_s, wssVars, closeVars, retryVars>>

\* lines 95-96: inside its scope or run_forever the Runtime sets the Ready
\* event it was handed
RuntimeSetReady ==
    /\ pc_w = "running"
    /\ ~is_ready
    /\ is_ready' = TRUE
    /\ UNCHANGED <<configVars, is_started, is_shutdown, cancel_event, ros_event,
                   workerVars, pc_s, wssVars, closeVars, retryVars>>

\* lines 95-96: run_forever returns (on TERMINATE, on Cancel, or by itself)
RuntimeReturn ==
    /\ pc_w = "running"
    /\ pc_w' = "finally"
    /\ UNCHANGED <<configVars, eventVars, worker_exc, environ, pc_s, wssVars, closeVars,
                   retryVars>>

\* lines 95-96: entering the Runtime's scope or run_forever raises; no except
\* clause covers the else-block, so the exception leaves run() after finally
RuntimeRaise ==
    /\ pc_w = "running"
    /\ pc_w' = "finally"
    /\ worker_exc' = "run"
    /\ UNCHANGED <<configVars, eventVars, environ, pc_s, wssVars, closeVars,
                   retryVars>>

\* line 98: the first statement of the finally clause
WorkerUnsetEnvs ==
    /\ pc_w = "finally"
    /\ environ' = _unset_envs(args, environ)
    /\ pc_w' = "set_shutdown"
    /\ UNCHANGED <<configVars, eventVars, worker_exc, pc_s, wssVars, closeVars,
                   retryVars>>

\* WorkerSetShutdown without is_shutdown.set()
WorkerSetShutdownForgotten ==
    /\ pc_w = "set_shutdown"
    /\ pc_w' = IF worker_exc = "run" THEN "raised" ELSE "done"
    /\ UNCHANGED <<configVars, eventVars, worker_exc, environ, pc_s, wssVars, closeVars,
                   retryVars>>

\* line 99: the last statement of the finally clause
WorkerSetShutdown ==
    /\ pc_w = "set_shutdown"
    /\ is_shutdown' = TRUE
    /\ pc_w' = IF worker_exc = "run" THEN "raised" ELSE "done"
    /\ UNCHANGED <<configVars, is_started, is_ready, cancel_event, ros_event,
                   worker_exc, environ, pc_s, wssVars, closeVars, retryVars>>

\* ConditionalEvent over [is_ready, is_shutdown]: the derived event is set
\* once one of its inputs is
PropagateEvent ==
    /\ is_ready \/ is_shutdown
    /\ ~ros_event
    /\ ros_event' = TRUE
    /\ UNCHANGED <<configVars, is_started, is_ready, is_shutdown, cancel_event,
                   workerVars, pc_s, wssVars, closeVars, retryVars>>

\* ------------------------------------------- the supervisor: BasePea

\* _is_dealer, line 297
_is_dealer == args.socket_in = "DEALER_CONNECT"

\* the _timeout of lines 266-270 and 338-342: None (wait for ever) when
\* args.timeout_ready is not positive
ReadyWaitIsBounded == args.timeout_ready > 0

\* BasePea.terminate, lines 216-221, on a worker standing at pcw: a Thread has
\* no terminate and nothing happens; Process.terminate kills a live process,
\* leaves a finished one alone, and raises AttributeError on a process that
\* was never started (its _popen is None)
terminate(pcw) ==
    IF args.runtime_backend = "THREAD"
    THEN [pc_w |-> pcw, raised |-> FALSE]
    ELSE IF pcw = "unstarted"
         THEN [pc_w |-> pcw, raised |-> TRUE]
         ELSE IF pcw \in WorkerFinished
              THEN [pc_w |-> pcw, raised |-> FALSE]
              ELSE [pc_w |-> "killed", raised |-> FALSE]

\* an operation of the supervisor returns to, or raises into, its caller
BackToCaller == pc_s' = "idle"

\* BasePea.start, lines 202-205: the worker is started, and unless
\* noblock_on_start the caller goes on into wait_start_success
Start ==
    /\ pc_s = "idle"
    /\ pc_w = "unstarted"
    /\ pc_w' = "set_envs"
    /\ pc_s' = IF args.noblock_on_start THEN "idle" ELSE "wss_wait"
    /\ UNCHANGED <<configVars, eventVars, worker_exc, environ, wssVars, closeVars,
                   retryVars>>

\* wait_start_success called by the caller itself, after a non-blocking start
CallWaitStartSuccess ==
    /\ pc_s = "idle"
    /\ args.noblock_on_start
    /\ pc_w # "unstarted"
    /\ wss_woke = "none"
    /\ pc_s' = "wss_wait"
    /\ UNCHANGED <<configVars, eventVars, workerVars, wssVars, closeVars, retryVars>>

\* line 272: the wait returns True, the derived event is set
WssWake ==
    /\ pc_s = "wss_wait"
    /\ ros_event
    /\ wss_woke' = "event"
    /\ pc_s' = "wss_read_shutdown"
    /\ UNCHANGED <<configVars, eventVars, workerVars, wss_result, closeVars, retryVars>>

\* a close() call begins: line 305
EnterClose(from) ==
    /\ pc_s' = "c_read_ready"
    /\ close_no' = close_no + 1
    /\ close_from' = from
    /\ close_entry' = [ready |-> is_ready, shutdown |-> is_shutdown,
                       cancel |-> cancel_event]
    /\ close_log' = <<>>

\* lines 272, 281-287: the wait times out and close() is invoked
WssTimeout ==
    /\ pc_s = "wss_wait"
    /\ ~ros_event
    /\ ReadyWaitIsBounded
    /\ wss_woke' = "timeout"
    /\ EnterClose("wss")
    /\ UNCHANGED <<configVars, eventVars, workerVars, wss_result, close_results,
                   logger_closed, retryVars>>

\* lines 273, 279-280: Shutdown is read after the wake-up; unset means success
WssReadShutdown ==
    /\ pc_s = "wss_read_shutdown"
    /\ IF is_shutdown
       THEN /\ pc_s' = "wss_read_started"
            /\ UNCHANGED wss_result
       ELSE /\ wss_result' = "ok"
            /\ BackToCaller
    /\ UNCHANGED <<configVars, eventVars, workerVars, wss_woke, closeVars, retryVars>>

\* WssReadStarted with the two exceptions swapped
WssReadStartedSwapped ==
    /\ pc_s = "wss_read_started"
    /\ wss_result' = IF is_started THEN "RuntimeFailToStart"
                     ELSE "RuntimeRunForeverEarlyError"
    /\ pc_s' = "idle"
    /\ UNCHANGED <<configVars, eventVars, workerVars, wss_woke, closeVars, retryVars>>

\* lines 275-278
WssReadStarted ==
    /\ pc_s = "wss_read_started"
    /\ wss_result' = IF ~is_started THEN "RuntimeFailToStart"
                     ELSE "RuntimeRunForeverEarlyError"
    /\ BackToCaller
    /\ UNCHANGED <<configVars, eventVars, workerVars, wss_woke, closeVars, retryVars>>

\* close() called by the supervisor's caller
CallClose ==
    /\ pc_s = "idle"
    /\ close_no < MaxClose
    /\ EnterClose("caller")
    /\ UNCHANGED <<configVars, eventVars, workerVars, wssVars, close_results,
                   logger_closed, retryVars>>

\* __exit__, lines 366-367
Exit ==
    /\ pc_s = "idle"
    /\ close_no < MaxClose
    /\ EnterClose("__exit__")
    /\ UNCHANGED <<configVars, eventVars, workerVars, wssVars, close_results,
                   logger_closed, retryVars>>

\* close() is left, normally ("returned") or by the exception `how`; a close
\* invoked by wait_start_success hands over to lines 288-290, or lets its
\* exception pass through wait_start_success
LeaveClose(how) ==
    /\ close_results' = Append(close_results, [how |-> how, shutdown |-> is_shutdown])
    /\ BackToCaller
    /\ wss_result' = IF close_from # "wss" THEN wss_result
                     ELSE IF how = "returned" THEN "TimeoutError" ELSE how

\* line 306, first operand
CloseReadReady ==
    /\ pc_s = "c_read_ready"
    /\ pc_s' = IF is_ready THEN "c_read_shutdown" ELSE "c_elif_shutdown"
    /\ UNCHANGED <<configVars, eventVars, workerVars, wssVars, closeVars, retryVars>>

\* CloseReadShutdown taking the first branch whatever Shutdown is
CloseReadShutdownIgnored ==
    /\ pc_s = "c_read_shutdown"
    /\ pc_s' = "c1_deactivate"
    /\ UNCHANGED <<configVars, eventVars, workerVars, wssVars, closeVars, retryVars>>

\* line 306, second operand
CloseReadShutdown ==
    /\ pc_s = "c_read_shutdown"
    /\ pc_s' = IF ~is_shutdown THEN "c1_deactivate" ELSE "c_elif_shutdown"
    /\ UNCHANGED <<configVars, eventVars, workerVars, wssVars, closeVars, retryVars>>

\* lines 328-331
CloseElifShutdown ==
    /\ pc_s = "c_elif_shutdown"
    /\ pc_s' = IF is_shutdown THEN "c_logger_close" ELSE "c3_wait"
    /\ UNCHANGED <<configVars, eventVars, workerVars, wssVars, closeVars, retryVars>>

\* what one _retry_control_message(command) of close() can come to: the
\* command goes through within NumRetryDefault attempts, or the last
\* failure is raised
SendOutcomes(command) ==
    { [log |-> IF r.raised THEN <<command \o "_failed">> ELSE <<command>>,
       cancel |-> FALSE, raised |-> r.raised] :
        r \in { _retry_control_message(chan, NumRetryDefault) :
                    chan \in Channels(NumRetryDefault) } }

\* _deactivate_runtime, lines 246-249
_deactivate_runtime ==
    IF _is_dealer
    THEN SendOutcomes("DEACTIVATE")
    ELSE {[log |-> <<>>, cancel |-> FALSE, raised |-> FALSE]}

\* _cancel_runtime sending TERMINATE to a ZEDRuntime only
CancelRuntimeZedOnly ==
    IF runtime_cls = "ZEDRuntime"
    THEN SendOutcomes("TERMINATE")
    ELSE {[log |-> <<"set_cancel">>, cancel |-> TRUE, raised |-> FALSE]}

\* _cancel_runtime, lines 251-259
_cancel_runtime ==
    IF runtime_cls = "ZEDRuntime" \/ runtime_cls = "ContainerRuntime"
    THEN SendOutcomes("TERMINATE")
    ELSE {[log |-> <<"set_cancel">>, cancel |-> TRUE, raised |-> FALSE]}

\* what close_log keeps of an Event.wait(timeout): the wait, and that it
\* returned False when the event was not set in time
WaitLog(what, event) == IF event THEN <<what>> ELSE <<what, "timed_out">>

\* where an exception raised inside the try block of lines 307-315 goes: the
\* handler of lines 316-323 logs it and close() goes on to line 326
TryBlockRaises == pc_s' = "c1_join"

\* CloseDeactivate with no handler around it: a failure leaves close()
CloseDeactivatePropagates ==
    /\ pc_s = "c1_deactivate"
    /\ \E o \in _deactivate_runtime :
        /\ close_log' = close_log \o o.log
        /\ IF o.raised
           THEN LeaveClose("ControlChannelError")
           ELSE /\ pc_s' = "c1_cancel"
                /\ UNCHANGED <<wss_result, close_results>>
    /\ UNCHANGED <<configVars, eventVars, workerVars, wss_woke, close_no, close_from,
                   close_entry,
                   logger_closed, retryVars>>

\* line 308
CloseDeactivate ==
    /\ pc_s = "c1_deactivate"
    /\ \E o \in _deactivate_runtime :
        /\ close_log' = close_log \o o.log \o
                            (IF o.raised THEN <<"error_logged">> ELSE <<>>)
        /\ IF o.raised THEN TryBlockRaises ELSE pc_s' = "c1_cancel"
    /\ UNCHANGED <<configVars, eventVars, workerVars, wssVars, close_no, close_from,
                   close_entry,
                   close_results, logger_closed, retryVars>>

\* line 309
CloseCancel ==
    /\ pc_s = "c1_cancel"
    /\ \E o \in _cancel_runtime :
        /\ close_log' = close_log \o o.log \o
                            (IF o.raised THEN <<"error_logged">> ELSE <<>>)
        /\ cancel_event' = (cancel_event \/ o.cancel)
        /\ IF o.raised THEN TryBlockRaises ELSE pc_s' = "c1_wait_shutdown"
    /\ UNCHANGED <<configVars, is_started, is_ready, is_shutdown, ros_event,
                   workerVars, wssVars, close_no, close_from, close_entry, close_results,
                   logger_closed, retryVars>>

\* line 310: is_shutdown.wait(timeout=self._timeout_ctrl) returns True once
\* Shutdown is set, False when the control timeout runs out first
CloseWaitShutdown ==
    /\ pc_s = "c1_wait_shutdown"
    /\ close_log' = close_log \o WaitLog("wait_shutdown", is_shutdown)
    /\ pc_s' = IF is_shutdown THEN "c1_join" ELSE "c1_terminate"
    /\ UNCHANGED <<configVars, eventVars, workerVars, wssVars, close_no, close_from,
                   close_entry,
                   close_results, logger_closed, retryVars>>

\* CloseTerminateRaise with no handler around it: the error leaves close()
CloseTerminateRaisePropagates ==
    /\ pc_s = "c1_terminate"
    /\ pc_w' = terminate(pc_w).pc_w
    /\ close_log' = Append(close_log, "terminate")
    /\ LeaveClose("Exception")
    /\ UNCHANGED <<configVars, eventVars, worker_exc, environ, wss_woke, close_no,
                   close_from, close_entry,
                   logger_closed, retryVars>>

\* lines 311-315: terminate(), then the missed acknowledgment is raised,
\* inside the try block
CloseTerminateRaise ==
    /\ pc_s = "c1_terminate"
    /\ pc_w' = terminate(pc_w).pc_w
    /\ close_log' = close_log \o <<"terminate", "error_logged">>
    /\ TryBlockRaises
    /\ UNCHANGED <<configVars, eventVars, worker_exc, environ, wssVars, close_no,
                   close_from, close_entry,
                   close_results, logger_closed, retryVars>>

\* lines 326-327: unless daemon, join() blocks until the worker has finished
CloseJoin ==
    /\ pc_s = "c1_join"
    /\ args.daemon \/ pc_w \in WorkerFinished
    /\ close_log' = IF args.daemon THEN close_log ELSE Append(close_log, "join")
    /\ pc_s' = "c_logger_close"
    /\ UNCHANGED <<configVars, eventVars, workerVars, wssVars, close_no, close_from,
                   close_entry,
                   close_results, logger_closed, retryVars>>

\* line 344: the wait on the derived event, bounded by the ready timeout
CloseWaitReadyOrShutdown ==
    /\ pc_s = "c3_wait"
    /\ ros_event \/ ReadyWaitIsBounded
    /\ close_log' = close_log \o WaitLog("wait_ready_or_shutdown", ros_event)
    /\ pc_s' = IF ros_event THEN "c3_read_ready" ELSE "c3_terminate"
    /\ UNCHANGED <<configVars, eventVars, workerVars, wssVars, close_no, close_from,
                   close_entry,
                   close_results, logger_closed, retryVars>>

\* line 345
CloseReadReadyAfterWait ==
    /\ pc_s = "c3_read_ready"
    /\ pc_s' = IF is_ready THEN "c3_cancel" ELSE "c_logger_close"
    /\ UNCHANGED <<configVars, eventVars, workerVars, wssVars, closeVars, retryVars>>

\* line 346: outside any try block, a failure leaves close()
CloseCancelAfterWait ==
    /\ pc_s = "c3_cancel"
    /\ \E o \in _cancel_runtime :
        /\ close_log' = close_log \o o.log
        /\ cancel_event' = (cancel_event \/ o.cancel)
        /\ IF o.raised
           THEN LeaveClose("ControlChannelError")
           ELSE /\ pc_s' = "c3_wait_shutdown"
                /\ UNCHANGED <<wss_result, close_results>>
    /\ UNCHANGED <<configVars, is_started, is_ready, is_shutdown, ros_event,
                   workerVars, wss_woke, close_no, close_from, close_entry, logger_closed,
                   retryVars>>

\* line 347
CloseWaitShutdownAfterWait ==
    /\ pc_s = "c3_wait_shutdown"
    /\ close_log' = close_log \o WaitLog("wait_shutdown", is_shutdown)
    /\ pc_s' = IF is_shutdown THEN "c_logger_close" ELSE "c3_terminate_raise"
    /\ UNCHANGED <<configVars, eventVars, workerVars, wssVars, close_no, close_from,
                   close_entry,
                   close_results, logger_closed, retryVars>>

\* lines 348-352: terminate(), then the missed acknowledgment is raised,
\* outside any try block
CloseTerminateRaiseAfterWait ==
    /\ pc_s = "c3_terminate_raise"
    /\ pc_w' = terminate(pc_w).pc_w
    /\ close_log' = Append(close_log, "terminate")
    /\ LeaveClose("Exception")
    /\ UNCHANGED <<configVars, eventVars, worker_exc, environ, wss_woke, close_no,
                   close_from, close_entry,
                   logger_closed, retryVars>>

\* lines 353-359: the ready wait timed out, terminate() as the last resort
CloseTerminateLastResort ==
    /\ pc_s = "c3_terminate"
    /\ pc_w' = terminate(pc_w).pc_w
    /\ close_log' = Append(close_log, "terminate")
    /\ IF terminate(pc_w).raised
       THEN LeaveClose("AttributeError")
       ELSE /\ pc_s' = "c_logger_close"
            /\ UNCHANGED <<wss_result, close_results>>
    /\ UNCHANGED <<configVars, eventVars, worker_exc, environ, wss_woke, close_no,
                   close_from, close_entry,
                   logger_closed, retryVars>>

\* lines 360-361: the logger is closed and close() returns
CloseLogger ==
    /\ pc_s = "c_logger_close"
    /\ logger_closed' = TRUE
    /\ LeaveClose("returned")
    /\ UNCHANGED <<configVars, eventVars, workerVars, wss_woke, close_no, close_from,
                   close_entry,
                   close_log, retryVars>>

\* ------------------------------------------------------- specifications

Worker ==
    \/ WorkerSetEnvs
    \/ WorkerConstruct
    \/ WorkerSetStarted
    \/ RuntimeSetReady
    \/ RuntimeReturn
    \/ RuntimeRaise
    \/ WorkerUnsetEnvs
    \/ WorkerSetShutdown

WaitStartSuccess ==
    \/ WssWake
    \/ WssTimeout
    \/ WssReadShutdown
    \/ WssReadStarted

Close ==
    \/ CloseReadReady
    \/ CloseReadShutdown
    \/ CloseElifShutdown
    \/ CloseDeactivate
    \/ CloseCancel
    \/ CloseWaitShutdown
    \/ CloseTerminateRaise
    \/ CloseJoin
    \/ CloseWaitReadyOrShutdown
    \/ CloseReadReadyAfterWait
    \/ CloseCancelAfterWait
    \/ CloseWaitShutdownAfterWait
    \/ CloseTerminateRaiseAfterWait
    \/ CloseTerminateLastResort
    \/ CloseLogger

Next ==
    \/ Start
    \/ CallWaitStartSuccess
    \/ CallClose
    \/ Exit
    \/ WaitStartSuccess
    \/ Close
    \/ Worker
    \/ PropagateEvent

Spec == Init /\ [][Next]_vars

\* BasePea.__init__, line 133, alone: the specification of the selection
\* policy starts from the Namespace as given and selects the runtime class
InitSelect ==
    /\ args_given \in SelectionArgs
    /\ args = args_given
    /\ runtime_cls = "unset"
    /\ InitRest

SelectRuntime ==
    /\ runtime_cls = "unset"
    /\ args' = _get_runtime_cls(args)
    /\ runtime_cls' = args'.runtime_cls
    /\ UNCHANGED <<args_given, eventVars, workerVars, pc_s, wssVars, closeVars,
                   retryVars>>

NextSelect == SelectRuntime

SpecSelect == InitSelect /\ [][NextSelect]_vars

\* run() alone: the worker is started and the entry point runs to its end,
\* for every backend and overlay
InitRun ==
    /\ args_given \in RunArgs
    /\ args = _get_runtime_cls(args_given)
    /\ runtime_cls = args.runtime_cls
    /\ InitRest

NextRun ==
    \/ Start
    \/ Worker
    \/ PropagateEvent

SpecRun == InitRun /\ [][NextRun]_vars

\* _retry_control_message alone, on every channel behaviour of up to
\* MaxNumRetry attempts
RetryInputs ==
    UNION { { [cmd |-> c, num_retry |-> n, chan |-> ch] :
                c \in {"ACTIVATE", "DEACTIVATE", "TERMINATE"}, ch \in Channels(n) } :
            n \in 1..MaxNumRetry }

InitRetry ==
    /\ args_given = CHOOSE a \in LifecycleArgs : TRUE
    /\ args = _get_runtime_cls(args_given)
    /\ runtime_cls = args.runtime_cls
    /\ is_started = FALSE
    /\ is_ready = FALSE
    /\ is_shutdown = FALSE
    /\ cancel_event = FALSE
    /\ ros_event = FALSE
    /\ pc_w = "unstarted"
    /\ worker_exc = "none"
    /\ environ = InheritedEnviron
    /\ pc_s = "idle"
    /\ wss_woke = "none"
    /\ wss_result = "none"
    /\ close_no = 0
    /\ close_from = "none"
    /\ close_entry = NoEntry
    /\ close_log = <<>>
    /\ close_results = <<>>
    /\ logger_closed = FALSE
    /\ retry_in \in RetryInputs
    /\ retry_out = NoOutcome

RetryControlMessage ==
    /\ ~retry_out.done
    /\ LET r == _retry_control_message(retry_in.chan, retry_in.num_retry)
       IN  retry_out' = [sends |-> r.sends, raised |-> r.raised, done |-> TRUE]
    /\ UNCHANGED <<configVars, eventVars, workerVars, pc_s, wssVars, closeVars,
                   retry_in>>

NextRetry == RetryControlMessage

SpecRetry == InitRetry /\ [][NextRetry]_vars

\* The lifecycle under the scheduling the platform gives: the worker's own
\* steps of run() are taken (the Runtime may run for ever), the derived event
\* follows its inputs, a wait that can return does, and a bounded wait that
\* cannot be woken times out.
SpecLive ==
    /\ Init
    /\ [][Next]_vars
    /\ WF_vars(WorkerSetEnvs)
    /\ WF_vars(WorkerConstruct)
    /\ WF_vars(WorkerSetStarted)
    /\ WF_vars(WorkerUnsetEnvs)
    /\ WF_vars(WorkerSetShutdown)
    /\ WF_vars(PropagateEvent)
    /\ WF_vars(WaitStartSuccess)

\* ------------------------------------------------------------- claims

Range(seq) == {seq[i] : i \in DOMAIN seq}

\* wait_start_success has ended, one way or the other
WssEnded == wss_result # "none"

C2_EarlyReturnIsEarlyError ==
    (worker_exc # "ctor" /\ ~is_ready /\ wss_woke = "event" /\ WssEnded)
        => wss_result = "RuntimeRunForeverEarlyError"

C2_Witness ==
    /\ worker_exc = "none"
    /\ pc_w = "done"
    /\ ~is_ready
    /\ is_started
    /\ wss_woke = "event"
    /\ wss_result = "RuntimeRunForeverEarlyError"

\* C3 as stated: whenever the Runtime has set Ready, a wait_start_success
\* woken by the event returns normally.
C3_ReadyAlwaysSucceeds ==
    (is_ready /\ wss_woke = "event" /\ WssEnded) => wss_result = "ok"

\* C3 amended: whenever the Runtime has set Ready, a wait_start_success woken
\* by the event returns normally if Shutdown is still unset when the
\* supervisor reads it, and raises RuntimeRunForeverEarlyError if the worker
\* has set Shutdown by then; it never raises RuntimeFailToStart.
C3_ReadySucceedsUnlessShutdownSeen ==
    (is_ready /\ wss_woke = "event" /\ WssEnded)
        => /\ wss_result \in {"ok", "RuntimeRunForeverEarlyError"}
           /\ wss_result = "RuntimeRunForeverEarlyError" => is_shutdown
           /\ ~is_shutdown => wss_result = "ok"

C3_Witness ==
    /\ is_ready
    /\ wss_woke = "event"
    /\ wss_result = "ok"
    /\ is_shutdown

\* the latest close() call has ended (no close() is running)
CloseEnded == close_no = Len(close_results)

\* how the latest completed close() call ended
LastClose == close_results[Len(close_results)]

\* the latest close() asked the worker to go: TERMINATE was accepted, Cancel
\* was set or terminate() was called; or the worker had set Shutdown already
TerminationRequested ==
    \/ Range(close_log) \cap {"TERMINATE", "set_cancel", "terminate"} # {}
    \/ is_shutdown

\* C4: when the wait of wait_start_success times out, wait_start_success
\* invokes close() and then raises TimeoutError, and by then the supervisor
\* is closed: the worker was asked to terminate and the logger is closed,
\* whatever the worker did while close() ran.
C4_TimeoutClosesThenRaisesTimeoutError ==
    (wss_woke = "timeout" /\ close_from = "wss" /\ CloseEnded)
        => /\ wss_result = "TimeoutError"
           /\ LastClose.how = "returned"
           /\ logger_closed
           /\ TerminationRequested

\* C5: once a first close() has returned, whatever its branch, a later
\* close() waits on no event, sends no command, does not set Cancel and
\* calls neither terminate() nor join().
C5_SecondCloseDoesNothing ==
    (close_no >= 2 /\ close_results[1].how = "returned") => close_log = <<>>

\* the supervisor is blocked in the ready wait of close() for good: the wait
\* has no timeout and the worker that could set the events was never started
BlockedInCloseForEver ==
    /\ pc_s = "c3_wait"
    /\ ~ReadyWaitIsBounded
    /\ ~ros_event
    /\ pc_w = "unstarted"

\* C9: __exit__ invokes close(), and close() on a supervisor whose worker was
\* never started neither hangs nor raises, whatever the ready timeout.
C9_CloseOfNeverStartedReturns ==
    pc_w = "unstarted"
        => /\ ~BlockedInCloseForEver
           /\ \A i \in DOMAIN close_results : close_results[i].how = "returned"
           /\ close_from = "__exit__" => close_no >= 1

\* the latest close() took its first branch (Ready and not Shutdown on entry)
\* and its wait for Shutdown timed out
ReadyBranchMissedShutdown ==
    /\ close_no >= 1
    /\ "wait_ready_or_shutdown" \notin Range(close_log)
    /\ \E i \in DOMAIN close_log :
        close_log[i] = "timed_out" /\ close_log[i - 1] = "wait_shutdown"
    /\ pc_s # "c1_terminate"

C6_RetrySendsUntilFirstSuccess ==
    retry_out.done =>
        LET n == retry_in.num_retry
            succ == {i \in 1..n : retry_in.chan[i]}
        IN  /\ retry_out.sends <= n
            /\ succ = {} => (retry_out.sends = n /\ retry_out.raised)
            /\ \A k \in succ :
                (\A j \in 1..(k - 1) : j \notin succ)
                    => (retry_out.sends = k /\ ~retry_out.raised)

C6_Witness ==
    /\ retry_out.done
    /\ retry_in.num_retry = NumRetryDefault
    /\ retry_in.chan = <<FALSE, TRUE, FALSE>>
    /\ retry_out.sends = 2
    /\ ~retry_out.raised

\* the selection has run on a Namespace with (or without) a protocol
Selected == runtime_cls # "unset"

\* C7: whenever a gateway protocol is configured, _get_runtime_cls selects
\* the gateway Runtime of that protocol, whatever the initial runtime class,
\* the host, the remote toggle and the executor reference are.
C7_GatewayProtocolWins ==
    (Selected /\ args_given.protocol # "NONE")
        => runtime_cls = gateway_runtime_dict[args_given.protocol]

C7_Witness ==
    /\ Selected
    /\ args_given.protocol = "HTTP"
    /\ args_given.runtime_cls = "ZEDRuntime"
    /\ args_given.host = RemoteHost
    /\ ~args_given.disable_remote
    /\ args_given.uses = "docker://img"
    /\ runtime_cls = "HTTPRuntime"

\* C8: with no gateway protocol and the default initial class ZEDRuntime,
\* a remote host with remote execution enabled selects JinadRuntime, even
\* for a docker:// or hub reference, which is then not resolved; otherwise a
\* docker:// reference selects ContainerRuntime; otherwise a hub reference is
\* resolved, and selects ContainerRuntime exactly when the resolved reference
\* starts with docker://; otherwise ZEDRuntime is kept.
C8_SelectionIsPriorityCascade ==
    (Selected /\ args_given.protocol = "NONE" /\ args_given.runtime_cls = "ZEDRuntime")
        => IF args_given.host # DefaultHost /\ ~args_given.disable_remote
           THEN /\ runtime_cls = "JinadRuntime"
                /\ args.hub_pulls = 0
                /\ args.uses = args_given.uses
           ELSE IF StartsWithDocker(args_given.uses)
           THEN /\ runtime_cls = "ContainerRuntime"
                /\ args.hub_pulls = 0
           ELSE IF is_valid_huburi(args_given.uses)
           THEN /\ args.hub_pulls = 1
                /\ args.uses = HubPull(args_given.uses)
                /\ runtime_cls = IF StartsWithDocker(args.uses)
                                 THEN "ContainerRuntime" ELSE "ZEDRuntime"
           ELSE /\ runtime_cls = "ZEDRuntime"
                /\ args.hub_pulls = 0

C8_Witness ==
    /\ Selected
    /\ args_given.protocol = "NONE"
    /\ args_given.runtime_cls = "ZEDRuntime"
    /\ args_given.host = RemoteHost
    /\ ~args_given.disable_remote
    /\ args_given.uses = "jinahub+docker://Exec"
    /\ runtime_cls = "JinadRuntime"
    /\ args.uses = "jinahub+docker://Exec"

\* a control command of the latest close() ran out of retries
ControlCommandFailed ==
    Range(close_log) \cap {"DEACTIVATE_failed", "TERMINATE_failed"} # {}

\* the latest close() found Ready unset on entry and waited for it
WaitedForReady == "wait_ready_or_shutdown" \in Range(close_log)

InCloseWait == pc_s \in {"c1_wait_shutdown", "c1_join", "c3_wait", "c3_wait_shutdown"}

\* C12: a close() called when Shutdown is already set, whether or not Ready
\* is set, does nothing to the worker: it sends no DEACTIVATE and no
\* TERMINATE, leaves Cancel as it found it, waits on no event, and calls
\* neither terminate() nor join().
C12_CloseAfterShutdownIsNoOp ==
    (close_no >= 1 /\ close_entry.shutdown)
        => /\ close_log = <<>>
           /\ cancel_event = close_entry.cancel
           /\ ~InCloseWait
           /\ pc_s \notin {"c1_deactivate", "c1_cancel", "c1_terminate", "c3_cancel",
                           "c3_terminate_raise", "c3_terminate"}
           /\ CloseEnded => LastClose.how = "returned"

C12_Witness ==
    /\ close_entry.shutdown
    /\ close_entry.ready
    /\ CloseEnded
    /\ close_log = <<>>
    /\ LastClose.how = "returned"
    /\ pc_w = "done"

\* the latest close() asked the Runtime to stop: it sent TERMINATE (accepted
\* or not) or set Cancel
StopRequested ==
    Range(close_log) \cap {"TERMINATE", "TERMINATE_failed", "set_cancel"} # {}

\* C13: for a dealer Pea, in every close() that requests termination (sends
\* TERMINATE or sets Cancel) a DEACTIVATE was sent successfully earlier in
\* the same close(), both when Ready was set on entry and when Ready arrived
\* during the wait of close().
C13_DealerDeactivatesBeforeStop ==
    (_is_dealer /\ StopRequested)
        => \E i, j \in DOMAIN close_log :
            /\ i < j
            /\ close_log[i] = "DEACTIVATE"
            /\ close_log[j] \in {"TERMINATE", "TERMINATE_failed", "set_cancel"}

\* C14: no exception escapes run(): when the construction of the Runtime
\* raises, and equally when entering the Runtime's scope or run_forever()
\* raises, run() sets Shutdown and returns normally.
C14_RunNeverRaises ==
    /\ pc_w \in {"done", "raised"} => is_shutdown
    /\ (worker_exc # "none" /\ pc_w \in {"done", "raised"}) => pc_w = "done"

\* C15: the worker's signals come in the order Started, Ready, Shutdown. In
\* every reachable state Ready set implies Started set; once Shutdown is set
\* no event of the worker changes any more (Started is never set after
\* Shutdown); and Started is set only by the step that follows the return of
\* the Runtime's constructor, which was handed the Ready event, never after
\* a constructor that raised.
C15_StartedReadyShutdownInOrder ==
    /\ [](is_ready => is_started)
    /\ [](is_started => (pc_w \notin {"unstarted", "set_envs", "construct"}
                            /\ worker_exc # "ctor"))
    /\ [][is_shutdown => (/\ is_started' = is_started
                          /\ is_ready' = is_ready
                          /\ is_shutdown' = is_shutdown)]_vars
    /\ [][is_started' # is_started => (pc_w = "set_started" /\ is_started')]_vars

C15_Witness ==
    /\ is_started
    /\ is_ready
    /\ is_shutdown
    /\ pc_w = "done"
    /\ worker_exc = "none"

\* C16: every execution of close() ends with the logger closed, whichever
\* branch it takes and however it ends, also when it raises the missed
\* acknowledgment or a control-channel error.
\* (Stated for the endings the claim names: a return, the missed
\* acknowledgment, a control-channel error.)
C16_CloseAlwaysClosesLogger ==
    (/\ close_no >= 1
     /\ CloseEnded
     /\ LastClose.how \in {"returned", "Exception", "ControlChannelError"})
        => logger_closed

\* the runtime classes that are stopped over the control channel
StoppedByCommand == runtime_cls \in {"ZEDRuntime", "ContainerRuntime"}

\* C17: the stop request goes by exactly one mechanism, chosen by the runtime
\* class: for ZEDRuntime and ContainerRuntime close() sends TERMINATE and
\* Cancel is never set; for every other class close() sets Cancel and sends
\* no TERMINATE; and Cancel changes in no other step of the supervisor.
C17_StopByOneMechanism ==
    /\ [](StoppedByCommand
            => (~cancel_event /\ "set_cancel" \notin Range(close_log)))
    /\ [](~StoppedByCommand
            => Range(close_log) \cap {"TERMINATE", "TERMINATE_failed"} = {})
    /\ [](pc_s \in {"c1_wait_shutdown", "c3_wait_shutdown"}
            => IF StoppedByCommand
               THEN "TERMINATE" \in Range(close_log)
               ELSE cancel_event /\ "set_cancel" \in Range(close_log))
    /\ [][cancel_event' # cancel_event
            => (/\ pc_s \in {"c1_cancel", "c3_cancel"}
                /\ ~StoppedByCommand
                /\ cancel_event')]_vars

C17_Witness ==
    /\ runtime_cls = "ContainerRuntime"
    /\ "TERMINATE" \in Range(close_log)
    /\ ~cancel_event
    /\ CloseEnded
    /\ is_shutdown

\* C18: the mutations of the selection belong to the rule that wins:
\* _get_runtime_cls changes the ready timeout (to -1) only when JinadRuntime
\* is the class it returns, and with a gateway protocol configured it leaves
\* the ready timeout and the executor reference as given and pulls nothing
\* from the hub.
C18_MutationsBelongToWinningRule ==
    Selected
        => /\ args.timeout_ready # args_given.timeout_ready
                => runtime_cls = "JinadRuntime"
           /\ args_given.protocol # "NONE"
                => /\ args.timeout_ready = args_given.timeout_ready
                   /\ args.uses = args_given.uses
                   /\ args.hub_pulls = 0

\* the whole overlay is in the worker's environment
OverlayApplied ==
    \A k \in DOMAIN _envs(args) : k \in DOMAIN environ /\ environ[k] = _envs(args)[k]

\* C19: with the process backend the whole overlay (worker name, log id,
\* quiet flag if given, user overrides if given) is in the worker's
\* environment from before the construction of the Runtime on, whether or
\* not the user supplied overrides, and the environment is back to what the
\* worker inherited before Shutdown is set; with the thread backend run()
\* leaves the shared environment as it is at every step.
C19_OverlayAppliedThenReverted ==
    IF args.runtime_backend = "PROCESS"
    THEN /\ pc_w \in {"construct", "set_started", "running"} => OverlayApplied
         /\ (pc_w = "set_shutdown" \/ is_shutdown) => environ = InheritedEnviron
    ELSE environ = InheritedEnviron

\* close() stands in join() (a non-daemon Pea) while the Runtime is inside
\* run_forever, no stop request of this close() went through and terminate()
\* was not called: close() returns only if the Runtime ends by itself
JoinOnUnstoppedWorker ==
    /\ pc_s = "c1_join"
    /\ ~args.daemon
    /\ pc_w = "running"
    /\ Range(close_log) \cap {"TERMINATE", "set_cancel", "terminate"} = {}

\* C20: with a process-isolated worker that has been started and a finite
\* ready timeout (the control timeout is always finite), close() is never
\* left waiting on the worker's goodwill, daemon or not, whatever the worker
\* and the control channel do: it never stands in join() on a worker that is
\* still running, was not told to stop and was not terminated.
C20_CloseNeverBlocksInJoin ==
    (/\ args.runtime_backend = "PROCESS"
     /\ ReadyWaitIsBounded
     /\ pc_w # "unstarted")
        => ~JoinOnUnstoppedWorker

====
